---- MODULE Spec2Model ----
(***************************************************************************)
(* Model of newspaper/casperjs/get_page_content.js.                        *)
(*                                                                         *)
(* The script registers one step callback (casper.start, lines 5-7) and    *)
(* one completion callback (casper.run, lines 8-14) with the browser       *)
(* engine, which owns the event queue.  The model keeps the script's       *)
(* state (url, registered callbacks, error handler, pending timers) and    *)
(* what the script does to the outside (standard output, the page, the     *)
(* process exit), together with the engine events the script reacts to.    *)
(*                                                                         *)
(* What the model takes from the engine, as the script uses it: the step   *)
(* callback of casper.start runs once the navigation is reported finished, *)
(* whatever its result; the callback of casper.run runs when no step is    *)
(* left; callbacks run one at a time, to completion; setTimeout(f, 0) runs *)
(* f on a later tick; an uncaught error ends the running callback and is   *)
(* handed to the function phantom.onError holds at that moment;            *)
(* phantom.exit(s) ends the process with status s.                         *)
(*                                                                         *)
(*   Spec      the engine honours its contract: no engine call raises.     *)
(*   LiveSpec  Spec with the event queue scheduled fairly.                 *)
(*   FaultSpec the engine may raise errors in the teardown calls and may   *)
(*             report asynchronous errors between callbacks.               *)
(***************************************************************************)
EXTENDS Integers, Sequences, FiniteSets, TLC

\* ---------------------------------------------------------------- bounds
MaxArgs == 2
MaxDomLen == 2
MaxErrors == 2

Urls == {"http://a/", "http://b/", "bad://"}
Tags == {"p", "div"}

VARIABLES
    argv,         \* command line arguments after the script name
    url,          \* var url (line 3)
    load,         \* engine: state of the navigation requested by line 5
    document,     \* engine: nodes of the live document of the page
    steps,        \* callbacks registered by casper.start, not yet invoked
    onComplete,   \* callback registered by casper.run, not yet invoked
    pageOpen,     \* the page resource is open
    timers,       \* pending setTimeout callbacks: the status each exits with
    onError,      \* phantom.onError: "default" or "noop"
    exitCalls,    \* statuses phantom.exit was called with
    stdout,       \* blobs written to standard output
    errors,       \* errors delivered to phantom.onError
    trace         \* calls and events in the order they happened

vars == <<argv, url, load, document, steps, onComplete, pageOpen, timers,
          onError, exitCalls, stdout, errors, trace>>

\* ------------------------------------------------------------- helpers
\* sequences over S of length lo..hi
SeqsOf(S, lo, hi) == UNION {[1..n -> S] : n \in lo..hi}

\* casper.cli.get(0): the first positional argument
CliGet0(args) == args[1]

\* the host of the url answers
Reachable(u) == u /= "bad://"

\* this.getHTML(): the serialised document, root element included
getHTML(doc) == <<"<html>">> \o doc \o <<"</html>">>

\* this.echo(s): s and a newline, as one blob
echo(out, s) == Append(out, Append(s, "\n"))

\* the process has not been brought down
Alive == exitCalls = <<>>

\* an uncaught error reaches the handler phantom.onError holds at that moment
Dispatch(errs, src, handler, at) ==
    Append(errs, [src |-> src, handler |-> handler, at |-> at])

\* number of occurrences of e in s
RECURSIVE Count(_, _)
Count(e, s) == IF s = <<>> THEN 0
               ELSE (IF Head(s) = e THEN 1 ELSE 0) + Count(e, Tail(s))

\* position of the first e in s, 0 when there is none
RECURSIVE IndexFrom(_, _, _)
IndexFrom(e, s, i) == IF i > Len(s) THEN 0
                      ELSE IF s[i] = e THEN i ELSE IndexFrom(e, s, i + 1)
Index(e, s) == IndexFrom(e, s, 1)

\* e1 and e2 both occur once, e1 first
Before(e1, e2, s) == Index(e1, s) > 0 /\ Index(e1, s) < Index(e2, s)

\* two-state lifecycle of the fetch: loading until the step callback has run
Lifecycle == IF steps /= <<>> THEN "loading" ELSE "done"

\* ---------------------------------------------------------------- Init
\* lines 2-8: casper created, url read, navigation requested with the step
\* callback, run() called with the completion callback.  The script is started
\* with at least one argument; what happens without one is left to the engine.
Init ==
    /\ argv \in SeqsOf(Urls, 1, MaxArgs)
    /\ url = CliGet0(argv)
    /\ load = "pending"
    /\ document = <<>>
    /\ steps = <<"start">>
    /\ onComplete = TRUE
    /\ pageOpen = TRUE
    /\ timers = <<>>
    /\ onError = "default"
    /\ exitCalls = <<>>
    /\ stdout = <<>>
    /\ errors = <<>>
    /\ trace = <<"navigate">>

\* ------------------------------------------------------ engine events
\* the engine builds the document while the page loads
Render ==
    /\ Alive /\ pageOpen
    /\ load = "pending"
    /\ Reachable(url)
    /\ Len(document) < MaxDomLen
    /\ \E t \in Tags : document' = Append(document, t)
    /\ UNCHANGED <<argv, url, load, steps, onComplete, pageOpen, timers,
                   onError, exitCalls, stdout, errors, trace>>

\* the engine reports the end of the navigation, successful or not; a failed
\* navigation leaves an empty document or an engine-generated error page
LoadFinished ==
    /\ Alive
    /\ load = "pending"
    /\ \/ /\ Reachable(url)
          /\ load' = "success"
          /\ document' = document
       \/ /\ load' = "fail"
          /\ document' \in {<<>>, <<"error">>}
    /\ trace' = Append(trace, "loadFinished")
    /\ UNCHANGED <<argv, url, steps, onComplete, pageOpen, timers,
                   onError, exitCalls, stdout, errors>>

\* ---------------------------------------------------- script callbacks
\* variant: the step callback does not wait for the navigation
StepReadyAlways == TRUE

\* the step callback is invoked once the navigation is reported complete
StepReady == load /= "pending"

\* variant: the step stays registered after it has run
StartStepRepeat ==
    /\ Alive
    /\ steps /= <<>>
    /\ load /= "pending"
    /\ stdout' = echo(stdout, getHTML(document))
    /\ steps' = IF Len(stdout) >= 1 THEN Tail(steps) ELSE steps
    /\ trace' = trace \o <<"getHTML", "echo">>
    /\ UNCHANGED <<argv, url, load, document, onComplete, pageOpen, timers,
                   onError, exitCalls, errors>>

\* variant: a failed navigation is treated as an error and nothing is printed
StartStepSkipOnFail ==
    /\ Alive
    /\ steps /= <<>>
    /\ load /= "pending"
    /\ IF load = "fail"
       THEN UNCHANGED <<stdout, trace>>
       ELSE /\ stdout' = echo(stdout, getHTML(document))
            /\ trace' = trace \o <<"getHTML", "echo">>
    /\ steps' = Tail(steps)
    /\ UNCHANGED <<argv, url, load, document, onComplete, pageOpen, timers,
                   onError, exitCalls, errors>>

\* lines 5-7: this.echo(this.getHTML())
StartStep ==
    /\ Alive
    /\ steps /= <<>>
    /\ StepReady
    /\ stdout' = echo(stdout, getHTML(document))
    /\ steps' = Tail(steps)
    /\ trace' = trace \o <<"getHTML", "echo">>
    /\ UNCHANGED <<argv, url, load, document, onComplete, pageOpen, timers,
                   onError, exitCalls, errors>>

\* variant: a watchdog completes the run whether or not the step has run
RunReadyWatchdog == TRUE

\* the completion callback is invoked when no step is left
RunReady == steps = <<>>

\* variant: the exit is never scheduled
RunCallbackNoTimer(fault) ==
    /\ Alive
    /\ onComplete
    /\ steps = <<>>
    /\ onComplete' = FALSE
    /\ pageOpen' = FALSE
    /\ onError' = "noop"
    /\ trace' = trace \o <<"close", "onError", "throw">>
    /\ errors' = Dispatch(errors, "throw", onError', Len(trace) + 3)
    /\ UNCHANGED <<timers, exitCalls, stdout>>
    /\ UNCHANGED <<argv, url, load, document, steps>>

\* variant: phantom.exit(0) is called in the callback itself
RunCallbackSyncExit(fault) ==
    /\ Alive
    /\ onComplete
    /\ steps = <<>>
    /\ onComplete' = FALSE
    /\ pageOpen' = FALSE
    /\ exitCalls' = Append(exitCalls, 0)
    /\ trace' = trace \o <<"close", "exit">>
    /\ UNCHANGED <<timers, onError, errors, stdout>>
    /\ UNCHANGED <<argv, url, load, document, steps>>

\* variant: the error is thrown before the handler is installed
RunCallbackThrowFirst(fault) ==
    /\ Alive
    /\ onComplete
    /\ steps = <<>>
    /\ onComplete' = FALSE
    /\ pageOpen' = FALSE
    /\ timers' = Append(timers, 0)
    /\ trace' = trace \o <<"close", "setTimeout", "throw">>
    /\ errors' = Dispatch(errors, "throw", onError, Len(trace) + 3)
    /\ UNCHANGED <<onError, exitCalls, stdout>>
    /\ UNCHANGED <<argv, url, load, document, steps>>

\* variant: the page is closed only after a successful navigation
RunCallbackCloseIfLoaded(fault) ==
    /\ Alive
    /\ onComplete
    /\ steps = <<>>
    /\ onComplete' = FALSE
    /\ pageOpen' = IF load = "success" THEN FALSE ELSE pageOpen
    /\ timers' = Append(timers, 0)
    /\ onError' = "noop"
    /\ trace' = trace \o (IF load = "success" THEN <<"close">> ELSE <<>>)
                      \o <<"setTimeout", "onError", "throw">>
    /\ errors' = Dispatch(errors, "throw", onError', Len(trace'))
    /\ UNCHANGED <<exitCalls, stdout>>
    /\ UNCHANGED <<argv, url, load, document, steps>>

\* variant: the document is read again after the page is closed
RunCallbackReadAfterClose(fault) ==
    /\ Alive
    /\ onComplete
    /\ steps = <<>>
    /\ onComplete' = FALSE
    /\ pageOpen' = FALSE
    /\ timers' = Append(timers, 0)
    /\ onError' = "noop"
    /\ stdout' = echo(stdout, getHTML(document))
    /\ trace' = trace \o <<"close", "getHTML", "echo", "setTimeout",
                            "onError", "throw">>
    /\ errors' = Dispatch(errors, "throw", onError', Len(trace) + 6)
    /\ UNCHANGED exitCalls
    /\ UNCHANGED <<argv, url, load, document, steps>>

\* lines 8-14: the completion callback.  fault names the engine call that
\* raises: "none", "close" (line 10) or "setTimeout" (line 11); a raised
\* error ends the callback there and reaches the handler in place.
RunCallback(fault) ==
    /\ Alive
    /\ onComplete
    /\ RunReady
    /\ onComplete' = FALSE
    /\ IF fault = "close"
       THEN /\ pageOpen' \in BOOLEAN
            /\ trace' = Append(trace, "close")
            /\ errors' = Dispatch(errors, "close", onError, Len(trace) + 1)
            /\ UNCHANGED <<timers, onError>>
       ELSE IF fault = "setTimeout"
       THEN /\ pageOpen' = FALSE
            /\ trace' = trace \o <<"close", "setTimeout">>
            /\ errors' = Dispatch(errors, "setTimeout", onError, Len(trace) + 2)
            /\ UNCHANGED <<timers, onError>>
       ELSE /\ pageOpen' = FALSE                               \* line 10
            /\ timers' = Append(timers, 0)                     \* line 11
            /\ onError' = "noop"                               \* line 12
            /\ trace' = trace \o <<"close", "setTimeout", "onError", "throw">>
            /\ errors' = Dispatch(errors, "throw", onError', Len(trace) + 4)
                                                               \* line 13
    /\ UNCHANGED <<argv, url, load, document, steps, exitCalls, stdout>>

\* variant: the timer callback returns without calling phantom.exit
ExitTimerNoExit(fault) ==
    /\ Alive
    /\ timers /= <<>>
    /\ timers' = Tail(timers)
    /\ trace' = Append(trace, "timer")
    /\ UNCHANGED <<argv, url, load, document, steps, onComplete, pageOpen,
                   onError, stdout, exitCalls, errors>>

\* line 11: function(){ phantom.exit(0); } run from the timer queue on a
\* later tick.  fault = "exit": phantom.exit raises instead of exiting.
ExitTimer(fault) ==
    /\ Alive
    /\ timers /= <<>>
    /\ timers' = Tail(timers)
    /\ IF fault = "exit"
       THEN /\ errors' = Dispatch(errors, "exit", onError, Len(trace) + 1)
            /\ trace' = Append(trace, "exitRaised")
            /\ UNCHANGED exitCalls
       ELSE /\ exitCalls' = Append(exitCalls, Head(timers))
            /\ trace' = Append(trace, "exit")
            /\ UNCHANGED errors
    /\ UNCHANGED <<argv, url, load, document, steps, onComplete, pageOpen,
                   onError, stdout>>

\* the engine reports an error of its own between two callbacks
EngineError ==
    /\ Alive
    /\ Count("engineError", trace) < MaxErrors
    /\ errors' = Dispatch(errors, "engine", onError, Len(trace) + 1)
    /\ trace' = Append(trace, "engineError")
    /\ UNCHANGED <<argv, url, load, document, steps, onComplete, pageOpen,
                   timers, onError, exitCalls, stdout>>

\* ------------------------------------------------------ specifications
Next ==
    \/ Render
    \/ LoadFinished
    \/ StartStep
    \/ RunCallback("none")
    \/ ExitTimer("none")

Spec == Init /\ [][Next]_vars

\* the engine runs a callback that is ready, and a timer that is due
LiveSpec ==
    /\ Init /\ [][Next]_vars
    /\ WF_vars(StartStep)
    /\ WF_vars(RunCallback("none"))
    /\ WF_vars(ExitTimer("none"))

FaultNext ==
    \/ Render
    \/ LoadFinished
    \/ StartStep
    \/ \E f \in {"none", "close", "setTimeout"} : RunCallback(f)
    \/ \E f \in {"none", "exit"} : ExitTimer(f)
    \/ EngineError

FaultSpec == Init /\ [][FaultNext]_vars

TypeOK ==
    /\ argv \in SeqsOf(Urls, 1, MaxArgs)
    /\ url \in Urls
    /\ load \in {"pending", "success", "fail"}
    /\ steps \in {<<>>, <<"start">>}
    /\ onComplete \in BOOLEAN
    /\ pageOpen \in BOOLEAN
    /\ onError \in {"default", "noop"}
    /\ Len(exitCalls) <= 1

\* ------------------------------------------------------------- claims
\* the events of a complete run, in order
ShutdownPath == <<"navigate", "loadFinished", "getHTML", "echo", "close",
                  "setTimeout", "onError", "throw", "exit">>

IsPrefix(s, t) == Len(s) <= Len(t) /\ SubSeq(t, 1, Len(s)) = s

Occurs(e) == Index(e, trace) > 0

\* C1: the HTML is written after the engine has reported the end of the
\* navigation and before the exit is requested (scheduled or performed);
\* no exit is requested without the output having been written.
C1_OutputBetweenLoadAndExit ==
    /\ (stdout /= <<>>) <=> Occurs("echo")
    /\ Occurs("echo") => Before("loadFinished", "echo", trace)
    /\ Occurs("setTimeout") => Before("echo", "setTimeout", trace)
    /\ Occurs("exit") => Before("echo", "exit", trace)
    /\ (timers /= <<>> \/ exitCalls /= <<>>) => stdout /= <<>>

C1_Witness ==
    /\ exitCalls = <<0>>
    /\ Before("loadFinished", "echo", trace)
    /\ Before("echo", "setTimeout", trace)

\* C2: once the output has been written the process eventually exits, when
\* the engine runs the callbacks and timers that are ready.
C2_OutputLeadsToExit == (stdout /= <<>>) ~> (~Alive)

C2_Witness == stdout /= <<>> /\ ~Alive /\ timers = <<>>

\* C3 as stated: every error raised from page.close() on is swallowed by the
\* no-op handler.
C3_TeardownErrorsSwallowed ==
    \A i \in DOMAIN errors :
        (Occurs("close") /\ errors[i].at >= Index("close", trace))
            => errors[i].handler = "noop"

\* C3 amended: every error raised after the no-op handler is installed
\* (line 12) is swallowed, the thrown error and an error of the deferred exit
\* included; an error raised by page.close() or by setTimeout comes before the
\* installation and reaches the handler that was in place.
C3_ErrorsAfterInstallSwallowed ==
    \A i \in DOMAIN errors :
        /\ (\/ errors[i].src \in {"throw", "exit"}
            \/ (Occurs("onError") /\ errors[i].at > Index("onError", trace)))
              => errors[i].handler = "noop"
        /\ errors[i].src \in {"close", "setTimeout"}
              => errors[i].handler = "default"

C3_Witness ==
    /\ \E i \in DOMAIN errors : errors[i].src = "throw"
    /\ \E i \in DOMAIN errors : errors[i].src = "exit"
    /\ \E i \in DOMAIN errors :
          errors[i].src = "engine" /\ errors[i].handler = "noop"

C5_FailureTakesSamePath ==
    /\ IsPrefix(trace, ShutdownPath)
    /\ Lifecycle = "done" => stdout = <<getHTML(document) \o <<"\n">>>>
    /\ ~Alive => (trace = ShutdownPath /\ exitCalls = <<0>>)
    /\ \A i \in DOMAIN errors : errors[i].handler = "noop"

C5_Witness ==
    /\ load = "fail"
    /\ document = <<"error">>
    /\ trace = ShutdownPath

\* C6: while the engine has not reported the end of the navigation no
\* callback of the script can run: nothing is written, the page stays open,
\* no exit is scheduled or requested.
C6_NoWatchdog ==
    load = "pending" =>
        /\ ~ENABLED StartStep
        /\ ~ENABLED RunCallback("none")
        /\ ~ENABLED ExitTimer("none")
        /\ Lifecycle = "loading"
        /\ stdout = <<>> /\ pageOpen /\ timers = <<>> /\ Alive

C6_Witness ==
    /\ load = "pending"
    /\ Len(document) = MaxDomLen
    /\ ~ENABLED Render

\* C7 as stated: the thrown error brings the process down whether or not the
\* deferred exit has run.
C7_ThrowForcesExit ==
    (\E i \in DOMAIN errors : errors[i].src = "throw") => ~Alive

\* C7 amended: the thrown error is swallowed by the no-op handler and ends
\* only the run callback; the process stays up until the deferred
\* phantom.exit(0) runs, which is then the one pending timer.
C7_ThrowSwallowedExitByTimer ==
    /\ \A i \in DOMAIN errors :
          errors[i].src = "throw" => errors[i].handler = "noop"
    /\ ~onComplete => (\E i \in DOMAIN errors : errors[i].src = "throw")
    /\ (~onComplete /\ Alive) => timers = <<0>>
    /\ ~Alive => (timers = <<>> /\ trace[Len(trace)] = "exit")

C7_Witness ==
    /\ ~onComplete
    /\ Alive
    /\ timers = <<0>>
    /\ errors = <<[src |-> "throw", handler |-> "noop", at |-> Len(trace)]>>

\* C8: the lifecycle is loading then done, the step callback runs once, the
\* HTML is read and printed once, done is never left, and no run ends in an
\* error state.
C8_StateOk ==
    /\ Lifecycle \in {"loading", "done"}
    /\ Count("getHTML", trace) <= 1
    /\ Len(stdout) <= 1
    /\ (Lifecycle = "done") <=> (Len(stdout) = 1)
    /\ (Lifecycle = "loading") => (onComplete /\ pageOpen /\ Alive)
    /\ \A i \in DOMAIN exitCalls : exitCalls[i] = 0
    /\ \A i \in DOMAIN errors : errors[i].handler = "noop"

C8_LoadingThenDone ==
    /\ []C8_StateOk
    /\ [][Lifecycle = "done" => Lifecycle' = "done"]_vars
    /\ [][(Lifecycle = "loading" /\ Lifecycle' = "done")
            => (load /= "pending" /\ Len(stdout') = Len(stdout) + 1)]_vars
    /\ [][stdout' /= stdout => (Lifecycle = "loading" /\ Lifecycle' = "done")]_vars

C8_Witness ==
    /\ Lifecycle = "done"
    /\ onComplete
    /\ Count("getHTML", trace) = 1
    /\ Len(stdout) = 1

\* C9: phantom.exit is called only by the timer callback, on a later step
\* than the run callback, with status 0 and after page.close(); the run
\* callback does close, setTimeout, onError, throw in this order.
C9_RunOrder ==
    ~onComplete =>
        /\ Len(trace) >= 8
        /\ SubSeq(trace, 5, 8) = <<"close", "setTimeout", "onError", "throw">>
        /\ ~pageOpen
        /\ onError = "noop"

C9_ExitDeferred ==
    /\ []C9_RunOrder
    /\ [][exitCalls' /= exitCalls =>
            /\ ~onComplete /\ ~pageOpen
            /\ timers /= <<>> /\ timers' = Tail(timers)
            /\ exitCalls' = <<0>>
            /\ Before("close", "throw", trace)]_vars
    /\ [][onComplete' /= onComplete =>
            (exitCalls' = exitCalls /\ timers' = Append(timers, 0))]_vars

C9_Witness ==
    /\ exitCalls = <<0>>
    /\ trace[Len(trace)] = "exit"
    /\ SubSeq(trace, 5, 8) = <<"close", "setTimeout", "onError", "throw">>

\* C10: the document is read only before page.close(); after page.close()
\* the script schedules the exit, installs the handler, throws and exits,
\* and touches the page no more.
C10_NoUseAfterClose ==
    /\ \A i \in DOMAIN trace :
          (Occurs("close") /\ i > Index("close", trace))
              => trace[i] \in {"setTimeout", "onError", "throw", "exit"}
    /\ ~pageOpen => (Lifecycle = "done" /\ ~ENABLED StartStep /\ ~ENABLED Render)
    /\ Occurs("close") => Before("getHTML", "close", trace)

C10_Witness ==
    /\ ~pageOpen
    /\ Alive
    /\ Before("getHTML", "close", trace)
====
